---- MODULE Spec2Model ----
(***************************************************************************)
(* Kubo-Greenwood conductivity post-processing of atoMEC                   *)
(* (src/atoMEC/postprocess/conductivity.py): the KuboGreenwood object, its *)
(* orbital-subset accessors, the tensor builders, calc_sig, cond_tot,      *)
(* check_sum_rule and gs_ortho.                                            *)
(*                                                                         *)
(* Numbers.  Occupations, eigenvalues, DOS weights and integrals are       *)
(* exact rationals; a float division by zero yields inf or nan as numpy    *)
(* does, so a value is a pair <<n, d>>: d > 0 is the rational n/d,         *)
(* <<1,0>> is +inf, <<-1,0>> is -inf and <<0,0>> is nan.  float32/float64  *)
(* rounding is not modelled.  Eigenvalues are counted in units of 5e-7, so *)
(* that the literal 1e-6 of calc_eig_diff_mat is the integer EigFloor.     *)
(* Quadratures of transcendental integrands (scipy quad, np.trapz with     *)
(* exp weights) are integer-valued surrogates of their arguments.          *)
(***************************************************************************)
EXTENDS Integers, Sequences, FiniteSets, TLC

\* ------------------------------------------------------------------ bounds
MaxL == 2
MaxN == 2
MaxValence == 2
MaxM == 1
NBands == 1
NSpin == 1
MaxDim == 2
GSN == 3
NGrid == 3
NSpinPol == 2
SpinVariants == 3

\* ------------------------------------------------------- program constants
EigFloor == 2

\* ---------------------------------------------------------------- numbers
Abs(x) == IF x < 0 THEN -x ELSE x
Sgn(x) == IF x < 0 THEN -1 ELSE IF x > 0 THEN 1 ELSE 0
Min(a, b) == IF a < b THEN a ELSE b

RECURSIVE GCD(_, _)
GCD(a, b) == IF b = 0 THEN a ELSE GCD(b, a % b)

\* the value n/d in lowest terms; d = 0 gives inf, -inf or nan
Q(n, d) ==
  IF d = 0 THEN <<Sgn(n), 0>>
  ELSE LET g == GCD(Abs(n), Abs(d))
           s == IF d < 0 THEN -1 ELSE 1
       IN <<(s * n) \div g, (s * d) \div g>>

I2Q(n) == <<n, 1>>
NaN == <<0, 0>>
IsNaN(a) == a = NaN
IsInf(a) == a[2] = 0 /\ a[1] # 0
IsFinite(a) == a[2] > 0

\* IEEE float arithmetic without rounding
XAdd(a, b) ==
  IF IsNaN(a) \/ IsNaN(b) THEN NaN
  ELSE IF IsInf(a) THEN (IF IsInf(b) /\ b # a THEN NaN ELSE a)
  ELSE IF IsInf(b) THEN b
  ELSE Q(a[1] * b[2] + b[1] * a[2], a[2] * b[2])

XMul(a, b) ==
  IF IsNaN(a) \/ IsNaN(b) THEN NaN
  ELSE IF IsInf(a) \/ IsInf(b)
       THEN (IF a[1] = 0 \/ b[1] = 0 THEN NaN ELSE <<Sgn(a[1]) * Sgn(b[1]), 0>>)
  ELSE Q(a[1] * b[1], a[2] * b[2])

XDiv(a, b) ==
  IF IsNaN(a) \/ IsNaN(b) THEN NaN
  ELSE IF IsInf(b) THEN (IF IsInf(a) THEN NaN ELSE <<0, 1>>)
  ELSE IF IsInf(a) THEN (IF b[1] < 0 THEN <<-a[1], 0>> ELSE a)
  ELSE IF b[1] = 0 THEN <<Sgn(a[1]), 0>>
  ELSE Q(a[1] * b[2], a[2] * b[1])

XLeq(a, b) == a[1] * b[2] <= b[1] * a[2]

\* ---------------------------------------------------------- python lists
None == "None"

Has(list, x) == \E i \in 1..Len(list) : list[i] = x

IndexOf(list, x) == CHOOSE i \in 1..Len(list) :
                      list[i] = x /\ \A j \in 1..(i - 1) : list[j] # x

\* a remove that drops the last element, whatever x is
ListRemove_pop(list, x) == SubSeq(list, 1, Len(list) - 1)

\* list.remove(x) on a list that holds x: the first occurrence goes
ListRemove(list, x) ==
  LET i == IndexOf(list, x)
  IN [j \in 1..(Len(list) - 1) |-> IF j < i THEN list[j] ELSE list[j + 1]]

ToSet(list) == {list[i] : i \in 1..Len(list)}

NoDup(list) == \A i, j \in 1..Len(list) : list[i] = list[j] => i = j

\* ------------------------------------------------------------ array shapes
\* np.shape(eigvals) = np.shape(occnums) = (NBands, NSpin, MaxL, MaxN)
Bands == 0..(NBands - 1)
Spins == 0..(NSpin - 1)
Orbs == (0..(MaxL - 1)) \X (0..(MaxN - 1))
Idx == Bands \X Orbs \X Orbs
MOff == 0..(2 * MaxL)
PIdx == (0..(MaxL - 1)) \X (0..(MaxL - 1)) \X MOff

VARIABLES
  lmax, nmax,          \* self._lmax, self._nmax
  valence_orbs,        \* self.valence_orbs, a list of (l, n)
  eigfuncs,            \* self._eigfuncs[k][sp][(l, n)]: coefficients of a radial function
  eigvals,             \* self._eigvals[k][sp][(l, n)], in units of 5e-7
  occnums,             \* self._occnums[k][sp][(l, n)]
  DOS_w,               \* self._DOS_w[k][sp][(l, n)]
  rmax,                \* np.exp(self._xgrid)[-1]
  heap,                \* the list objects the two cached attributes refer to
  all_ref,             \* self._all_orbs: an address of heap, or None
  cond_ref,            \* self._cond_orbs: an address of heap, or None
  last,                \* the last call: what was called, how it ended, what it returned
  tens                 \* the tensors the last call built (None where it built none)

kgvars == <<lmax, nmax, valence_orbs, eigfuncs, eigvals, occnums, DOS_w, rmax,
            heap, all_ref, cond_ref, last, tens>>

\* the shapes of the arrays a KuboGreenwood object is built from
VARIABLES
  shape_eigfuncs,      \* np.shape(orbitals._eigfuncs) without the grid axis
  shape_eigvals,       \* np.shape(orbitals.eigvals)
  shape_occnums,       \* np.shape(orbitals.occnums)
  shape_DOS_w,         \* np.shape(orbitals.DOS * orbitals.kpt_int_weight)
  shape_last           \* how the last call on these shapes ended

shvars == <<shape_eigfuncs, shape_eigvals, shape_occnums, shape_DOS_w, shape_last>>

\* one call of gs_ortho(eigfuncs, xgrid)
VARIABLES
  gs_orig,             \* the caller's array as it was before the call
  gs_in,               \* the caller's array
  gs_ret               \* what gs_ortho returned

gsvars == <<gs_orig, gs_in, gs_ret>>

\* -------------------------------------------------------- radial integrals
\* A radial function is a pair of integer coefficients over two basis shapes;
\* np.gradient and the chain-rule factor are linear, so grad_orb2 carries the
\* same coefficients.  GradForm and OverlapForm stand for the trapezoidal
\* quadratures of the basis shapes (4 pi included).
GradForm == <<<<-1, 2>>, <<-3, -1>>>>
OverlapForm == <<<<2, 1>>, <<1, 3>>>>

Bilinear(form, f, g) ==
  f[1] * g[1] * form[1][1] + f[1] * g[2] * form[1][2]
  + f[2] * g[1] * form[2][1] + f[2] * g[2] * form[2][2]

R1_int_term(eigfunc, grad_orb2) == Bilinear(GradForm, eigfunc, grad_orb2)

R2_int_term(eigfunc_1, eigfunc_2) == Bilinear(OverlapForm, eigfunc_1, eigfunc_2)

\* a selection rule on the radial instead of the angular quantum number
DeltaN(o1, o2) == Abs(o1[2] - o2[2])

\* abs(l1 - l2)
DeltaL(o1, o2) == Abs(o1[1] - o2[1])

\* the double loop "for l1, n1 in orb_subset_1: for l2, n2 in orb_subset_2"
PairSeq(A, B) ==
  [i \in 1..(Len(A) * Len(B)) |->
     <<A[((i - 1) \div Len(B)) + 1], B[((i - 1) % Len(B)) + 1]>>]

\* a function as an explicit table of its values
Table(f) == f @@ <<>>

ZeroMat == Table([i \in Idx |-> 0])

\* R_mat[:, l1, n1, l2, n2] = value per band
SetSlot(mat, o1, o2, val) ==
  [i \in {<<k, o1, o2>> : k \in Bands} |-> val[i[1]]] @@ mat

\* the loop body of calc_R1_int_mat without its mirrored write
R1_body_unmirrored(mat, ef, o1, o2, differ) ==
  IF DeltaL(o1, o2) # 1 THEN mat
  ELSE SetSlot(mat, o1, o2, [k \in Bands |-> R1_int_term(ef[k][0][o1], ef[k][0][o2])])

\* the loop body of calc_R1_int_mat
R1_body(mat, ef, o1, o2, differ) ==
  IF DeltaL(o1, o2) # 1 THEN mat
  ELSE LET v12 == [k \in Bands |-> R1_int_term(ef[k][0][o1], ef[k][0][o2])]
           v21 == [k \in Bands |-> R1_int_term(ef[k][0][o2], ef[k][0][o1])]
           m1 == SetSlot(mat, o1, o2, v12)
       IN IF differ THEN SetSlot(m1, o2, o1, v21) ELSE m1

RECURSIVE R1_loop(_, _, _, _, _)
R1_loop(mat, ef, pairs, differ, i) ==
  IF i > Len(pairs) THEN mat
  ELSE R1_loop(R1_body(mat, ef, pairs[i][1], pairs[i][2], differ), ef, pairs, differ, i + 1)

calc_R1_int_mat(ef, orb_subset_1, orb_subset_2) ==
  R1_loop(ZeroMat, ef, PairSeq(orb_subset_1, orb_subset_2),
          orb_subset_1 # orb_subset_2, 1)

\* the loop body of calc_R2_int_mat without its mirrored write
R2_body_unmirrored(mat, ef, o1, o2, differ) ==
  IF DeltaL(o1, o2) # 1 THEN mat
  ELSE SetSlot(mat, o1, o2, [k \in Bands |-> R2_int_term(ef[k][0][o1], ef[k][0][o2])])

\* the loop body of calc_R2_int_mat
R2_body(mat, ef, o1, o2, differ) ==
  IF DeltaL(o1, o2) # 1 THEN mat
  ELSE LET v12 == [k \in Bands |-> R2_int_term(ef[k][0][o1], ef[k][0][o2])]
           v21 == [k \in Bands |-> R2_int_term(ef[k][0][o2], ef[k][0][o1])]
           m1 == SetSlot(mat, o1, o2, v12)
       IN IF differ THEN SetSlot(m1, o2, o1, v21) ELSE m1

RECURSIVE R2_loop(_, _, _, _, _)
R2_loop(mat, ef, pairs, differ, i) ==
  IF i > Len(pairs) THEN mat
  ELSE R2_loop(R2_body(mat, ef, pairs[i][1], pairs[i][2], differ), ef, pairs, differ, i + 1)

calc_R2_int_mat(ef, orb_subset_1, orb_subset_2) ==
  R2_loop(ZeroMat, ef, PairSeq(orb_subset_1, orb_subset_2),
          orb_subset_1 # orb_subset_2, 1)

\* the slots [:, l1, n1, l2, n2] the loops of calc_R1_int_mat / calc_R2_int_mat
\* assign, in the order of the assignments
RECURSIVE R_write_loop(_, _, _, _)
R_write_loop(log, pairs, differ, i) ==
  IF i > Len(pairs) THEN log
  ELSE LET o1 == pairs[i][1]
           o2 == pairs[i][2]
       IN R_write_loop(IF DeltaL(o1, o2) # 1 THEN log
                       ELSE IF differ THEN log \o <<<<o1, o2>>, <<o2, o1>>>>
                       ELSE Append(log, <<o1, o2>>),
                       pairs, differ, i + 1)

R_writes(orb_subset_1, orb_subset_2) ==
  R_write_loop(<<>>, PairSeq(orb_subset_1, orb_subset_2),
               orb_subset_1 # orb_subset_2, 1)

\* ------------------------------------------------------- angular integrals
\* sph_ham_coeff(l, m) takes factorial(l - m) and factorial(l + m): math.factorial
\* raises ValueError on a negative argument
sph_ham_defined(l, m) == l - m >= 0 /\ l + m >= 0

\* 2 pi c(l1,m) c(l2,m) quad(kernel): for l1, l2 < 2 the exact value in units
\* of 1/sqrt(3), an integer surrogate of the same sign pattern beyond
P_int(func_int, l1, l2, m) ==
  IF func_int = 2 THEN (Min(l1, l2) + 1) * (Min(l1, l2) + 1 - Abs(m))
  ELSE IF l2 > l1 THEN l2 + 1 - Abs(m)
  ELSE -(l2 * (l1 - Abs(m)))

P_mat_int(func_int, lmaxdim) ==
  Table([p \in PIdx |->
     LET l1 == p[1]
         l2 == p[2]
         lsmall == Min(l1, l2)
         m == p[3] - lsmall
     IN IF l1 < lmaxdim /\ l2 < lmaxdim /\ Abs(l1 - l2) = 1
           /\ m >= -lsmall /\ m <= lsmall
        THEN P_int(func_int, l1, l2, m)
        ELSE 0])

\* ------------------------------------------------- occupation / eigenvalue
\* the loop body of calc_occ_diff_mat reading the last spin plane instead of the first
occ_body_last_spin(mat, occ, k, o1, o2) ==
  LET occ_diff == -(occ[k][NSpinPol - 1][o1] - occ[k][NSpinPol - 1][o2])
  IN IF DeltaL(o1, o2) # 1 THEN mat
     ELSE IF occ_diff < 0 THEN mat
     ELSE [mat EXCEPT ![<<k, o1, o2>>] = occ_diff]

\* the loop body of calc_occ_diff_mat
occ_body(mat, occ, k, o1, o2) ==
  LET occ_diff == -(occ[k][0][o1] - occ[k][0][o2])
  IN IF DeltaL(o1, o2) # 1 THEN mat
     ELSE IF occ_diff < 0 THEN mat
     ELSE [mat EXCEPT ![<<k, o1, o2>>] = occ_diff]

RECURSIVE occ_loop(_, _, _, _, _)
occ_loop(mat, occ, pairs, k, i) ==
  IF k >= NBands THEN mat
  ELSE IF i > Len(pairs) THEN occ_loop(mat, occ, pairs, k + 1, 1)
  ELSE occ_loop(occ_body(mat, occ, k, pairs[i][1], pairs[i][2]), occ, pairs, k, i + 1)

calc_occ_diff_mat(occ, orb_subset_1, orb_subset_2) ==
  occ_loop(ZeroMat, occ, PairSeq(orb_subset_1, orb_subset_2), 0, 1)

eig_body(mat, eig, k, o1, o2) ==
  IF DeltaL(o1, o2) # 1 THEN mat
  ELSE IF eig[k][0][o1] - eig[k][0][o2] < 0 THEN mat
  ELSE [mat EXCEPT ![<<k, o1, o2>>] = eig[k][0][o1] - eig[k][0][o2]]

RECURSIVE eig_loop(_, _, _, _, _)
eig_loop(mat, eig, pairs, k, i) ==
  IF k >= NBands THEN mat
  ELSE IF i > Len(pairs) THEN eig_loop(mat, eig, pairs, k + 1, 1)
  ELSE eig_loop(eig_body(mat, eig, k, pairs[i][1], pairs[i][2]), eig, pairs, k, i + 1)

calc_eig_diff_mat(eig, orb_subset_1, orb_subset_2) ==
  eig_loop(Table([i \in Idx |-> EigFloor]), eig, PairSeq(orb_subset_1, orb_subset_2), 0, 1)

\* ------------------------------------------------------------- calc_sig
RECURSIVE SumSet(_, _)
SumSet(S, f) ==
  IF S = {} THEN I2Q(0)
  ELSE LET x == CHOOSE y \in S : TRUE
       IN XAdd(f[x], SumSet(S \ {x}, f))

RECURSIVE SumInt(_, _)
SumInt(S, f) ==
  IF S = {} THEN 0
  ELSE LET x == CHOOSE y \in S : TRUE
       IN f[x] + SumInt(S \ {x}, f)

\* np.sum(np.abs((tmp_mat_1 + tmp_mat_2) * (tmp_mat_3 + tmp_mat_4)), axis=-1)
mel_sq_mat(R1_int, R2_int, P2_int, P4_int) ==
  Table([i \in Idx |->
     LET k == i[1]
         a == i[2]
         c == i[3]
         term == [e \in MOff |->
           Abs((R1_int[<<k, a, c>>] * P2_int[<<a[1], c[1], e>>]
                + R2_int[<<k, a, c>>] * P4_int[<<a[1], c[1], e>>])
               * (R1_int[<<k, c, a>>] * P2_int[<<c[1], a[1], e>>]
                  + R2_int[<<k, c, a>>] * P4_int[<<c[1], a[1], e>>]))]
     IN SumInt(MOff, term)])

\* self.sph_vol / pi = (4/3) rmax^3
sph_vol_over_pi(r) == Q(4 * r * r * r, 3)

\* the tensors and the value of calc_sig(R1_int, R2_int, orb_subset_1, orb_subset_2)
calc_sig(R1_int, R2_int, orb_subset_1, orb_subset_2) ==
  LET P2_int == P_mat_int(2, MaxL)
      P4_int == P_mat_int(4, MaxL)
      mel == mel_sq_mat(R1_int, R2_int, P2_int, P4_int)
      occ_diff_mat == calc_occ_diff_mat(occnums, orb_subset_1, orb_subset_2)
      eig_diff_mat == calc_eig_diff_mat(eigvals, orb_subset_1, orb_subset_2)
      \* one summand of einsum("kln,klnpq->", DOS_w[:, 0], mel * occ / eig)
      summand(i) == XMul(I2Q(DOS_w[i[1]][0][i[2]]),
                         XDiv(I2Q(mel[i] * occ_diff_mat[i]), I2Q(eig_diff_mat[i])))
      terms == Table([i \in Idx |-> summand(i)])
      sig_bare == SumSet(Idx, terms)
  IN [sig |-> XDiv(XMul(I2Q(2), sig_bare), sph_vol_over_pi(rmax)),
      R1 |-> R1_int, R2 |-> R2_int, P2 |-> P2_int, P4 |-> P4_int,
      mel_sq |-> mel, occ_diff |-> occ_diff_mat, eig_diff |-> eig_diff_mat,
      terms |-> terms]

\* calc_sig_func: the curve sig_omega is the sum over the transitions i of
\* amp[i] * lorentzian(omega, eig_diff[i], gamma); it is returned as these
\* amplitudes and centres, the frequency grid being fixed by the arguments
calc_sig_func(R1_int, R2_int, orb_subset_1, orb_subset_2) ==
  LET P2_int == P_mat_int(2, MaxL)
      P4_int == P_mat_int(4, MaxL)
      occ_diff_mat == calc_occ_diff_mat(occnums, orb_subset_1, orb_subset_2)
      eig_diff_mat == calc_eig_diff_mat(eigvals, orb_subset_1, orb_subset_2)
      mel == mel_sq_mat(R1_int, R2_int, P2_int, P4_int)
      mat1(i) == XMul(I2Q(DOS_w[i[1]][0][i[2]]), I2Q(mel[i] * occ_diff_mat[i]))
      amp(i) == XDiv(XMul(I2Q(2), XMul(mat1(i), XDiv(I2Q(1), I2Q(eig_diff_mat[i])))),
                     sph_vol_over_pi(rmax))
  IN [sig |-> Table([i \in Idx |-> <<amp(i), eig_diff_mat[i]>>]),
      R1 |-> R1_int, R2 |-> R2_int, P2 |-> P2_int, P4 |-> P4_int,
      mel_sq |-> mel, occ_diff |-> occ_diff_mat, eig_diff |-> eig_diff_mat,
      terms |-> Table([i \in Idx |-> amp(i)])]

\* ------------------------------------------------- the subset accessors
Addr == {"list1", "list2"}

\* the nested loops of all_orbs over range(self._lmax), range(self._nmax)
AllOrbsList(lm, nm) ==
  [i \in 1..(lm * nm) |-> <<(i - 1) \div nm, (i - 1) % nm>>]

\* a memoised all_orbs: the list bound to self._all_orbs is handed out again
all_orbs_cached(st) ==
  IF st.all # None THEN st.heap[st.all] ELSE AllOrbsList(lmax, nmax)

\* the list all_orbs hands out: all_orbs_tmp, built anew on every access
all_orbs_tmp(st) == AllOrbsList(lmax, nmax)

\* a list object no attribute refers to once self._all_orbs is rebound
FreshAddr(st) == IF st.cond = "list1" THEN "list2" ELSE "list1"

\* property all_orbs: a new list, bound to self._all_orbs and returned
all_orbs(st) ==
  LET a == FreshAddr(st)
  IN [st |-> [heap |-> [st.heap EXCEPT ![a] = all_orbs_tmp(st)], all |-> a, cond |-> st.cond],
      ref |-> a, err |-> FALSE]

\* "for val_orbs in self.valence_orbs: cond_orbs_tmp.remove(val_orbs)", in place
RECURSIVE remove_loop(_, _, _)
remove_loop(list, vals, i) ==
  IF i > Len(vals) THEN [list |-> list, err |-> FALSE]
  ELSE IF ~Has(list, vals[i]) THEN [list |-> list, err |-> TRUE]
  ELSE remove_loop(ListRemove(list, vals[i]), vals, i + 1)

\* property cond_orbs: removes from the very list all_orbs returned
cond_orbs(st) ==
  LET r == all_orbs(st)
      rm == remove_loop(r.st.heap[r.ref], valence_orbs, 1)
      h == [r.st.heap EXCEPT ![r.ref] = rm.list]
  IN [st |-> [heap |-> h, all |-> r.st.all,
              cond |-> IF rm.err THEN r.st.cond ELSE r.ref],
      ref |-> r.ref, err |-> rm.err]

\* one evaluation of self.all_orbs, self.cond_orbs or self.valence_orbs
Subset(name, st) ==
  IF name = "all" THEN LET r == all_orbs(st) IN [st |-> r.st, list |-> r.st.heap[r.ref], err |-> r.err]
  ELSE IF name = "cond" THEN LET r == cond_orbs(st) IN [st |-> r.st, list |-> r.st.heap[r.ref], err |-> r.err]
  ELSE [st |-> st, list |-> valence_orbs, err |-> FALSE]

\* attribute evaluations in program order; the first exception ends them
RECURSIVE Evaluate(_, _, _, _)
Evaluate(st, names, i, lists) ==
  IF i > Len(names) THEN [st |-> st, lists |-> lists, err |-> FALSE]
  ELSE LET r == Subset(names[i], st)
       IN IF r.err THEN [st |-> r.st, lists |-> lists, err |-> TRUE]
          ELSE Evaluate(r.st, names, i + 1, Append(lists, r.list))

Components == {"tt", "cc", "cv", "vv"}

\* the subset pair of a component
SubsetNames(component) ==
  IF component = "tt" THEN <<"all", "all">>
  ELSE IF component = "cc" THEN <<"cond", "cond">>
  ELSE IF component = "cv" THEN <<"cond", "val">>
  ELSE IF component = "vv" THEN <<"val", "val">>
  ELSE <<"val", "cond">>

\* R1_int_xx, R2_int_xx, then the two subsets: six attribute evaluations
SixNames(component) ==
  LET p == SubsetNames(component)
  IN <<p[1], p[2], p[1], p[2], p[1], p[2]>>

\* attributes unreferenced after a call are garbage
Collect(st) ==
  [st EXCEPT !.heap = Table([a \in Addr |-> IF a = st.all \/ a = st.cond THEN st.heap[a]
                                            ELSE <<>>])]

Obj == [heap |-> heap, all |-> all_ref, cond |-> cond_ref]

SetObj(st) ==
  LET c == Collect(st)
  IN /\ heap' = c.heap
     /\ all_ref' = c.all
     /\ cond_ref' = c.cond

NoTens == [built |-> FALSE]
NoVal == <<>>

\* no array shapes under study, no gs_ortho call under study
ShapeIdle ==
  /\ shape_eigfuncs = NoVal
  /\ shape_eigvals = NoVal
  /\ shape_occnums = NoVal
  /\ shape_DOS_w = NoVal
  /\ shape_last = NoVal

GSIdle ==
  /\ gs_orig = NoVal
  /\ gs_in = NoVal
  /\ gs_ret = NoVal
DataUnchanged ==
  UNCHANGED <<lmax, nmax, valence_orbs, eigfuncs, eigvals, occnums, DOS_w, rmax, shvars, gsvars>>

\* ------------------------------------------------------------ the calls
Call(op, arg, outcome, val, s1, s2) ==
  [op |-> op, arg |-> arg, outcome |-> outcome, val |-> val, s1 |-> s1, s2 |-> s2]

\* kg.all_orbs
get_all_orbs ==
  LET r == all_orbs(Obj)
  IN /\ SetObj(r.st)
     /\ last' = Call("all_orbs", None, "return", r.st.heap[r.ref], <<>>, <<>>)
     /\ tens' = NoTens
     /\ DataUnchanged

\* kg.cond_orbs
get_cond_orbs ==
  LET r == cond_orbs(Obj)
  IN /\ SetObj(r.st)
     /\ last' = IF r.err THEN Call("cond_orbs", None, "ValueError", NoVal, <<>>, <<>>)
                ELSE Call("cond_orbs", None, "return", r.st.heap[r.ref], <<>>, <<>>)
     /\ tens' = NoTens
     /\ DataUnchanged

\* what evaluating a sig_xx property does: six attribute evaluations, the two
\* radial tensors, calc_sig
SigResult(component) ==
  LET ev == Evaluate(Obj, SixNames(component), 1, <<>>)
  IN IF ev.err THEN [err |-> TRUE, st |-> ev.st]
     ELSE [err |-> FALSE, st |-> ev.st, s1 |-> ev.lists[5], s2 |-> ev.lists[6],
           res |-> calc_sig(calc_R1_int_mat(eigfuncs, ev.lists[1], ev.lists[2]),
                            calc_R2_int_mat(eigfuncs, ev.lists[3], ev.lists[4]),
                            ev.lists[5], ev.lists[6])]

\* the body shared by sig_tot, sig_cc, sig_cv, sig_vv and by a direct call of
\* calc_sig on the tensors of a subset pair.  The attributes _sig_tot, _sig_cc,
\* _sig_cv, _sig_vv are assigned here and read nowhere: the value is last.val
SigCall(op, component) ==
  \E r \in {SigResult(component)} :
     /\ SetObj(r.st)
     /\ DataUnchanged
     /\ IF r.err
        THEN /\ last' = Call(op, component, "ValueError", NoVal, <<>>, <<>>)
             /\ tens' = NoTens
        ELSE /\ last' = Call(op, component, "return", r.res.sig, r.s1, r.s2)
             /\ tens' = r.res

sig_tot == SigCall("sig_tot", "tt")
sig_cc == SigCall("sig_cc", "cc")
sig_vv == SigCall("sig_vv", "vv")
sig_cv == SigCall("sig_cv", "cv")

\* kg.calc_sig(R1, R2, kg.valence_orbs, kg.cond_orbs) with R1, R2 from
\* calc_R1_int_mat / calc_R2_int_mat over the same pair
calc_sig_vc == SigCall("calc_sig", "vc")

ComponentArgs == Components \cup {"vc", "xx"}

\* kg.cond_tot(component)
\* a dispatch without its else branch
recognised_any(component) == TRUE

\* the if / elif chain of cond_tot
recognised(component) == component \in Components

cond_tot(component) ==
  IF ~recognised(component)
  THEN \* sys.exit("Component of conducivity not recognised")
       /\ last' = Call("cond_tot", component, "SystemExit", NoVal, <<>>, <<>>)
       /\ tens' = NoTens
       /\ UNCHANGED <<heap, all_ref, cond_ref>>
       /\ DataUnchanged
  ELSE \E ev \in {Evaluate(Obj, SixNames(component), 1, <<>>)} :
          /\ SetObj(ev.st)
          /\ DataUnchanged
               /\ IF ev.err
             THEN /\ last' = Call("cond_tot", component, "ValueError", NoVal, <<>>, <<>>)
                  /\ tens' = NoTens
             ELSE \E res \in {calc_sig_func(
                                   calc_R1_int_mat(eigfuncs, ev.lists[1], ev.lists[2]),
                                   calc_R2_int_mat(eigfuncs, ev.lists[3], ev.lists[4]),
                                   ev.lists[5], ev.lists[6])} :
                     /\ last' = Call("cond_tot", component, "return", res.sig,
                                     ev.lists[5], ev.lists[6])
                     /\ tens' = res

\* calc_mel_kgm(orb_l1n1, orb_l2n2, l1, n1, l2, n2, m, xgrid) on orbitals
\* scaled by sqrt(4 pi)
calc_mel_kgm(orb1, orb2, l1, l2, m) ==
  R1_int_term(orb1, orb2) * P_int(2, l1, l2, m)
  + R2_int_term(orb1, orb2) * P_int(4, l1, l2, m)

\* does P_int(.., l1, l2, m) raise (factorial of a negative number)?
P_int_raises(l1, l2, m) == ~sph_ham_defined(l1, m) \/ ~sph_ham_defined(l2, m)

\* the contribution of (l1, n1) to sum_mom[k]
sum_rule_term(k, o, o1, m) ==
  LET eig_diff == eigvals[k][0][o1] - eigvals[k][0][o]
      orb_l1n1 == eigfuncs[k][0][o1]
      orb_ln == eigfuncs[k][0][o]
      mel == calc_mel_kgm(orb_ln, orb_l1n1, o[1], o1[1], m)
      mel_cc == calc_mel_kgm(orb_l1n1, orb_ln, o1[1], o[1], m)
      mel_sq == IF Abs(m) > o1[1] THEN 0 ELSE Abs(mel_cc * mel)
  IN IF DeltaL(o1, o) # 1 THEN I2Q(0)
     ELSE XDiv(I2Q(mel_sq), I2Q(eig_diff))

sum_rule_raises(o, new_orbs, m) ==
  \E i \in 1..Len(new_orbs) :
     /\ DeltaL(new_orbs[i], o) = 1
     /\ Abs(m) <= new_orbs[i][1]
     /\ P_int_raises(o[1], new_orbs[i][1], m)

\* kg.check_sum_rule(l, n, m)
check_sum_rule(l, n, m) ==
  LET r == all_orbs(Obj)
      o == <<l, n>>
      new_orbs == r.st.heap[r.ref]
  IN /\ DataUnchanged
     /\ tens' = NoTens
     /\ IF ~Has(new_orbs, o)
        THEN \* new_orbs.remove((l, n)) raises
             /\ SetObj(r.st)
             /\ last' = Call("check_sum_rule", <<l, n, m>>, "ValueError", NoVal, <<>>, <<>>)
        ELSE LET rest == ListRemove(new_orbs, o)
                 st2 == [r.st EXCEPT !.heap[r.ref] = rest]
                 sum_mom == [k \in Bands |->
                               SumSet(ToSet(rest),
                                      [o1 \in ToSet(rest) |-> sum_rule_term(k, o, o1, m)])]
             IN /\ SetObj(st2)
                /\ last' = IF sum_rule_raises(o, rest, m)
                           THEN Call("check_sum_rule", <<l, n, m>>, "ValueError", NoVal, rest, <<>>)
                           ELSE Call("check_sum_rule", <<l, n, m>>, "return", sum_mom, rest, <<>>)

\* ------------------------------------------------------------ data sets
\* (occupation, eigenvalue) of an orbital: eigenvalues 0, 1, 3 differ by less
\* than, exactly and more than EigFloor
Levels == {<<1, 0>>, <<0, 0>>, <<0, 1>>, <<1, 3>>}
FuncVals == {<<1, 0>>, <<1, 1>>}

\* band k and spin sp of an array whose band 0, spin 0 plane is given
Planes(plane, step) ==
  Table([k \in Bands |-> Table([sp \in Spins |->
     Table([o \in Orbs |-> plane[o] + step * (k + 2 * sp)])])])

FuncPlanes(plane) ==
  Table([k \in Bands |-> Table([sp \in Spins |->
     Table([o \in Orbs |-> IF (k + sp) % 2 = 0 THEN plane[o]
                           ELSE <<plane[o][2], plane[o][1]>>])])])

\* duplicate-free lists over the orbitals of all_orbs
ValidLists(lm, nm, maxlen) ==
  LET all == ToSet(AllOrbsList(lm, nm))
  IN UNION {{s \in [1..n -> all] : NoDup(s)} : n \in 0..Min(maxlen, lm * nm)}

InitObject ==
  /\ heap = Table([a \in Addr |-> <<>>])
  /\ all_ref = None
  /\ cond_ref = None
  /\ last = Call("__init__", None, "return", NoVal, <<>>, <<>>)
  /\ tens = NoTens

\* one orbital set, every shape of the object and every valid valence list
InitKG ==
  /\ lmax \in 1..MaxL
  /\ nmax \in 1..MaxN
  /\ valence_orbs \in ValidLists(lmax, nmax, MaxValence)
  /\ occnums = Planes([o \in Orbs |-> IF o[1] = 0 THEN 1 ELSE 0], 1)
  /\ eigvals = Planes([o \in Orbs |-> IF o[1] = 0 THEN 0 ELSE 3 - o[2]], 1)
  /\ eigfuncs = FuncPlanes([o \in Orbs |-> IF o[2] % 2 = 0 THEN <<1, 0>> ELSE <<1, 1>>])
  /\ DOS_w = Planes([o \in Orbs |-> 1], 0)
  /\ rmax = 1
  /\ InitObject
  /\ ShapeIdle
  /\ GSIdle

\* the assembler on every assignment of levels to the orbitals above a ground state
Sorted(list) == \A i, j \in 1..Len(list) : i < j => IndexOf(AllOrbsList(MaxL, MaxN), list[i])
                                                    < IndexOf(AllOrbsList(MaxL, MaxN), list[j])

TensorValence ==
  {v \in ValidLists(MaxL, MaxN, MaxValence) : Sorted(v) /\ (Len(v) > 0 => v[1] = <<0, 0>>)}

InitTensor ==
  /\ lmax = MaxL
  /\ nmax = MaxN
  /\ valence_orbs \in TensorValence
  /\ \E lev \in [Orbs -> Levels] :
       \* the orbital l = 0, n = 0 is the ground state: no eigenvalue lies below it
       /\ \A o \in Orbs : lev[<<0, 0>>][2] <= lev[o][2]
       /\ occnums = Planes([o \in Orbs |-> lev[o][1]], 1)
       /\ eigvals = Planes([o \in Orbs |-> lev[o][2]], 1)
  /\ eigfuncs = FuncPlanes([o \in Orbs |-> IF o[2] % 2 = 0 THEN <<1, 0>> ELSE <<1, 1>>])
  /\ DOS_w = Planes([o \in Orbs |-> 1 + o[1]], 0)
  /\ rmax = 1
  /\ InitObject
  /\ ShapeIdle
  /\ GSIdle

KGNext ==
  \/ get_all_orbs
  \/ get_cond_orbs
  \/ sig_tot
  \/ sig_cc
  \/ sig_vv
  \/ sig_cv
  \/ calc_sig_vc
  \/ \E component \in ComponentArgs : cond_tot(component)
  \/ \E l \in 0..(MaxL - 1), n \in 0..(MaxN - 1), m \in (-MaxM)..MaxM : check_sum_rule(l, n, m)

TensorNext ==
  \/ sig_tot
  \/ sig_cc
  \/ sig_vv
  \/ sig_cv
  \/ calc_sig_vc

\* -------------------------------------------------- the arrays' shapes
\* A shape is <<nbands, nspin, lmax, nmax>>.  sig_tot is followed through the
\* index expressions and broadcasts it performs, in program order, on arrays
\* of these shapes; the object is built with the default lmax = 0, nmax = 0
Shapes == (1..MaxDim) \X (1..MaxDim) \X (1..MaxDim) \X (1..MaxDim)

\* __init__: self._lmax, self._nmax are the l and n extents of eigvals
shape_lmax == shape_eigvals[3]
shape_nmax == shape_eigvals[4]

\* is arr[k, 0, l, n] (or arr[:, 0, l, n]) inside an array of shape sh?
InRange(sh, o) == o[1] < sh[3] /\ o[2] < sh[4]

\* numpy's broadcasting rule for one axis
Broadcastable(a, b) == a = b \/ a = 1 \/ b = 1

\* one pass of the loop body of calc_R1_int_mat / calc_R2_int_mat: the two
\* reads of eigfuncs, then the assignment into the occnums-shaped R_mat
ShapeRBody(o1, o2) ==
  IF Abs(o1[1] - o2[1]) # 1 THEN "ok"
  ELSE IF ~InRange(shape_eigfuncs, o1) \/ ~InRange(shape_eigfuncs, o2) THEN "IndexError"
  ELSE IF ~InRange(shape_occnums, o1) \/ ~InRange(shape_occnums, o2) THEN "IndexError"
  ELSE IF ~(shape_eigfuncs[1] = shape_occnums[1] \/ shape_eigfuncs[1] = 1) THEN "ValueError"
  ELSE "ok"

\* the loop body of calc_occ_diff_mat: occnums is read before the l test
ShapeOccBody(o1, o2) ==
  IF ~InRange(shape_occnums, o1) \/ ~InRange(shape_occnums, o2) THEN "IndexError"
  ELSE "ok"

\* the first exception of a loop over the pairs, "ok" if it runs through
RECURSIVE ShapeLoop(_, _, _)
ShapeLoop(stage, pairs, i) ==
  LET res == IF stage = "occ" THEN ShapeOccBody(pairs[i][1], pairs[i][2])
             ELSE ShapeRBody(pairs[i][1], pairs[i][2])
  IN IF i > Len(pairs) THEN "ok"
     ELSE IF res # "ok" THEN res
     ELSE ShapeLoop(stage, pairs, i + 1)

\* mel_sq_mat * occ_diff_mat / eig_diff_mat: occnums-shaped against eigvals-shaped
ShapeCombine ==
  IF /\ Broadcastable(shape_occnums[1], shape_eigvals[1])
     /\ Broadcastable(shape_occnums[3], shape_eigvals[3])
     /\ Broadcastable(shape_occnums[4], shape_eigvals[4])
  THEN "ok" ELSE "ValueError"

Max(a, b) == IF a > b THEN a ELSE b

\* einsum("kln,klnpq->", self._DOS_w[:, 0], ...): every label has one extent, or 1
ShapeEinsum ==
  IF /\ Broadcastable(shape_DOS_w[1], Max(shape_occnums[1], shape_eigvals[1]))
     /\ Broadcastable(shape_DOS_w[3], Max(shape_occnums[3], shape_eigvals[3]))
     /\ Broadcastable(shape_DOS_w[4], Max(shape_occnums[4], shape_eigvals[4]))
  THEN "ok" ELSE "ValueError"

\* the stages of sig_tot in program order, each with the tensors complete
\* once it has run through
ShapeStages ==
  LET pairs == PairSeq(AllOrbsList(shape_lmax, shape_nmax), AllOrbsList(shape_lmax, shape_nmax))
  IN << [res |-> ShapeLoop("R1", pairs, 1), built |-> {"R1"}],
        [res |-> ShapeLoop("R2", pairs, 1), built |-> {"R2"}],
        [res |-> "ok", built |-> {"P2", "P4", "mel_sq"}],
        [res |-> ShapeLoop("occ", pairs, 1), built |-> {"occ_diff"}],
        [res |-> "ok", built |-> {"eig_diff"}],
        [res |-> ShapeCombine, built |-> {}],
        [res |-> ShapeEinsum, built |-> {"sig"}] >>

\* run the stages up to the first exception
RECURSIVE ShapeRun(_, _, _)
ShapeRun(stages, i, built) ==
  IF i > Len(stages) THEN [outcome |-> "return", built |-> built]
  ELSE IF stages[i].res # "ok" THEN [outcome |-> stages[i].res, built |-> built]
  ELSE ShapeRun(stages, i + 1, built \cup stages[i].built)

\* kg.sig_tot on an object built from arrays of these shapes
shape_sig_tot ==
  /\ shape_last' = [op |-> "sig_tot"] @@ ShapeRun(ShapeStages, 1, {})
  /\ UNCHANGED <<shape_eigfuncs, shape_eigvals, shape_occnums, shape_DOS_w>>
  /\ UNCHANGED <<kgvars, gsvars>>

\* the object's own variables, out of play
KGIdle ==
  /\ lmax = 1
  /\ nmax = 1
  /\ valence_orbs = <<>>
  /\ eigfuncs = NoVal
  /\ eigvals = NoVal
  /\ occnums = NoVal
  /\ DOS_w = NoVal
  /\ rmax = 1
  /\ InitObject

\* every triple of shapes; the DOS weights have the shape of the eigenvalues
\* or of the occupations
InitShape ==
  /\ shape_eigfuncs \in Shapes
  /\ shape_eigvals \in Shapes
  /\ shape_occnums \in Shapes
  /\ shape_DOS_w \in {shape_eigvals, shape_occnums}
  /\ shape_last = [op |-> "__init__", outcome |-> "return", built |-> {}]
  /\ KGIdle
  /\ GSIdle

ShapeNext == shape_sig_tot

\* ------------------------------------------------------------- gs_ortho
\* An eigenfunction array maps <<k, sp, l, n>> to its values on the grid, a
\* tuple of NGrid numbers.  Arrays live at addresses: a name is bound to an
\* address, and two names bound to one address are one array
GSIdx == Bands \X Spins \X (0..(MaxL - 1)) \X (0..(GSN - 1))
Grid == 1..NGrid

\* 4 pi times the trapezoidal weight of exp(2 x) at grid point i: a positive number
GridWeight(i) == i * i

RECURSIVE GridSum(_, _)
GridSum(f, i) == IF i > NGrid THEN I2Q(0) ELSE XAdd(f[i], GridSum(f, i + 1))

prod_eigfuncs(phi0, phi1) ==
  GridSum([i \in Grid |-> XMul(I2Q(GridWeight(i)), XMul(phi0[i], phi1[i]))], 1)

proj_eigfuncs(phi0, phi1) ==
  LET c == XDiv(prod_eigfuncs(phi0, phi1), prod_eigfuncs(phi0, phi0))
  IN [i \in Grid |-> XMul(c, phi0[i])]

\* a - b on the grid
GridSub(a, b) == [i \in Grid |-> XAdd(a[i], XMul(I2Q(-1), b[i]))]

GSZeros == [idx \in GSIdx |-> [i \in Grid |-> I2Q(0)]]

\* a second name for the argument's array instead of a new array
same_array(src, fresh) == src

\* np.zeros_like(arr): a new array, at an address of its own
zeros_like(src, fresh) == fresh

\* "for n2 in range(n1): eigfuncs_ortho[k, sp, l, n1] -= proj_eigfuncs(...)"
RECURSIVE gs_inner(_, _, _, _)
gs_inner(mem, ortho, idx, n2) ==
  IF n2 >= idx[4] THEN mem
  ELSE LET src == <<idx[1], idx[2], idx[3], n2>>
           p == proj_eigfuncs(mem[ortho][src], mem["eigfuncs"][idx])
       IN gs_inner([mem EXCEPT ![ortho][idx] = GridSub(mem[ortho][idx], p)],
                   ortho, idx, n2 + 1)

\* the body of the loop over k, sp, l, n1
gs_body(mem, ortho, norm, idx) ==
  LET m1 == [mem EXCEPT ![ortho][idx] = mem["eigfuncs"][idx]]
      m2 == gs_inner(m1, ortho, idx, 0)
      n == prod_eigfuncs(m2[ortho][idx], m2[ortho][idx])
  IN [m2 EXCEPT ![norm][idx] = [i \in Grid |-> n]]

\* the loops "for k: for sp: for l: for n1", flattened in their order
GSOrder ==
  [j \in 1..(NBands * NSpin * MaxL * GSN) |->
     <<(j - 1) \div (NSpin * MaxL * GSN),
       ((j - 1) \div (MaxL * GSN)) % NSpin,
       ((j - 1) \div GSN) % MaxL,
       (j - 1) % GSN>>]

RECURSIVE gs_loop(_, _, _, _)
gs_loop(mem, ortho, norm, j) ==
  IF j > Len(GSOrder) THEN mem
  ELSE gs_loop(gs_body(mem, ortho, norm, GSOrder[j]), ortho, norm, j + 1)

\* gs_ortho(eigfuncs, xgrid): the memory it leaves and the array it returns.
\* An entry of the result is vec * norm ** (-0.5), kept as vec and norm
gs_ortho_run(arr) ==
  LET ortho == zeros_like("eigfuncs", "eigfuncs_ortho")
      norm == zeros_like("eigfuncs", "norm")
      mem0 == [a \in {"eigfuncs", "eigfuncs_ortho", "norm"} |->
                 IF a = "eigfuncs" THEN arr ELSE GSZeros]
      mem == gs_loop(mem0, ortho, norm, 1)
  IN [mem |-> mem,
      ret |-> [idx \in GSIdx |-> [vec |-> mem[ortho][idx], norm |-> mem[norm][idx]]]]

gs_ortho ==
  \E r \in {gs_ortho_run(gs_in)} :
     /\ gs_in' = r.mem["eigfuncs"]
     /\ gs_ret' = Table(r.ret)
     /\ UNCHANGED gs_orig
     /\ UNCHANGED <<kgvars, shvars>>

\* the grid functions 1 on the first j points and 0 beyond
GSFuncs == {[i \in Grid |-> IF i <= j THEN I2Q(1) ELSE I2Q(0)] : j \in Grid}

InitGS ==
  /\ gs_in \in [GSIdx -> GSFuncs]
  /\ gs_orig = gs_in
  /\ gs_ret = NoVal
  /\ KGIdle
  /\ ShapeIdle

GSNext == gs_ortho

\* ------------------------------------------- spin-polarised orbital sets
\* Arrays with NSpinPol spin planes.  The planes of spin index >= 1 are the
\* spin-0 plane shifted orbital by orbital, by an amount that grows with the
\* variant v; variant 0 repeats the spin-0 plane, and is the one the object is
\* constructed with
SpinsPol == 0..(NSpinPol - 1)

SpinShift(v, sp, o) == v * sp * (1 + o[1] + 2 * o[2])

SpinArray(plane, v) ==
  Table([k \in Bands |-> Table([sp \in SpinsPol |->
     Table([o \in Orbs |-> plane[o] + SpinShift(v, sp, o)])])])

SpinFuncArray(plane, v) ==
  Table([k \in Bands |-> Table([sp \in SpinsPol |->
     Table([o \in Orbs |-> <<plane[o][1] + SpinShift(v, sp, o), plane[o][2]>>])])])

\* the arrays of the object are mutable numpy arrays, three of them the
\* caller's own (self._eigvals = orbitals.eigvals binds the same array): the
\* planes of spin index >= 1 are rewritten in place, which leaves an orbital
\* set that agrees with the old one at spin index 0
set_spin_planes(v) ==
  /\ eigfuncs' = SpinFuncArray(eigfuncs[0][0], v)
  /\ eigvals' = SpinArray(eigvals[0][0], v)
  /\ occnums' = SpinArray(occnums[0][0], v)
  /\ DOS_w' = SpinArray(DOS_w[0][0], v)
  /\ eigvals' # eigvals
  /\ UNCHANGED <<lmax, nmax, valence_orbs, rmax, heap, all_ref, cond_ref, last, tens>>
  /\ UNCHANGED <<shvars, gsvars>>

SpinValence == {<<<<0, 0>>>>, <<<<0, 0>>, <<1, 0>>>>}

InitSpin ==
  /\ lmax = MaxL
  /\ nmax = MaxN
  /\ valence_orbs \in SpinValence
  /\ \E v \in {0} :
       /\ occnums = SpinArray([o \in Orbs |-> IF o[1] = 0 THEN 1 ELSE 0], v)
       /\ eigvals = SpinArray([o \in Orbs |-> IF o[1] = 0 THEN 0 ELSE 3 - o[2]], v)
       /\ eigfuncs = SpinFuncArray([o \in Orbs |-> IF o[2] % 2 = 0 THEN <<1, 0>> ELSE <<1, 1>>], v)
       /\ DOS_w = SpinArray([o \in Orbs |-> 1 + o[1]], v)
  /\ rmax = 1
  /\ InitObject
  /\ ShapeIdle
  /\ GSIdle

SpinNext ==
  \/ sig_tot
  \/ sig_cc
  \/ sig_vv
  \/ sig_cv
  \/ \E component \in Components : cond_tot(component)
  \/ \E l \in 0..(MaxL - 1), n \in 0..(MaxN - 1), m \in (-MaxM)..MaxM : check_sum_rule(l, n, m)
  \/ \E v \in 0..(SpinVariants - 1) : set_spin_planes(v)

vars == <<kgvars, shvars, gsvars>>

Init == InitKG

Next == KGNext

\* the object under every sequence of calls
Spec == Init /\ [][Next]_vars

\* the conductivity assembler over the orbital data
SpecTensor == InitTensor /\ [][TensorNext]_vars

\* sig_tot on arrays of every shape
SpecShape == InitShape /\ [][ShapeNext]_vars

\* gs_ortho on every array of grid functions
SpecGS == InitGS /\ [][GSNext]_vars

\* the conductivity outputs on orbital sets that differ at spin index >= 1
SpecSpin == InitSpin /\ [][SpinNext]_vars

\* ------------------------------------------------------------------ claims
Returned(ops) == last.op \in ops /\ last.outcome = "return"

SigOps == {"sig_tot", "sig_cc", "sig_vv", "sig_cv", "calc_sig"}

ProductSet == (0..(lmax - 1)) \X (0..(nmax - 1))

\* C1: the list cond_orbs returns and valence_orbs are disjoint and together
\* hold exactly the orbitals of all_orbs, the product {0..lmax-1} x {0..nmax-1}
C1_Partition ==
  /\ last.op = "all_orbs" => /\ last.outcome = "return"
                             /\ ToSet(last.val) = ProductSet
                             /\ NoDup(last.val)
  /\ last.op = "cond_orbs" => /\ last.outcome = "return"
                              /\ ToSet(last.val) \cap ToSet(valence_orbs) = {}
                              /\ ToSet(last.val) \cup ToSet(valence_orbs) = ProductSet
                              /\ NoDup(last.val)

C1_Witness ==
  /\ Returned({"cond_orbs"})
  /\ Len(valence_orbs) = 2
  /\ Len(last.val) = 2

\* the subsets as the specification defines them, without any list being changed
Keep(list, drop) ==
  LET F[i \in 0..Len(list)] ==
        IF i = 0 THEN <<>>
        ELSE IF list[i] \in drop THEN F[i - 1] ELSE Append(F[i - 1], list[i])
  IN F[Len(list)]

FullList == [i \in 1..(lmax * nmax) |-> <<(i - 1) \div nmax, (i - 1) % nmax>>]

Expected(name) ==
  IF name = "all" THEN FullList
  ELSE IF name = "cond" THEN Keep(FullList, ToSet(valence_orbs))
  ELSE valence_orbs

ComponentOf(op, arg) ==
  IF op = "sig_tot" THEN "tt" ELSE IF op = "sig_cc" THEN "cc"
  ELSE IF op = "sig_vv" THEN "vv" ELSE IF op = "sig_cv" THEN "cv" ELSE arg

\* C2: after any sequence of calls all_orbs still returns the full product,
\* cond_orbs still returns all_orbs without valence_orbs, and every
\* conductivity is computed over the subsets of its component
C2_NoCacheCorruption ==
  /\ last.op = "all_orbs" => last.outcome = "return" /\ last.val = Expected("all")
  /\ last.op = "cond_orbs" => last.outcome = "return" /\ last.val = Expected("cond")
  /\ (last.op \in SigOps \/ (last.op = "cond_tot" /\ last.arg \in Components)) =>
       /\ last.outcome = "return"
       /\ last.s1 = Expected(SubsetNames(ComponentOf(last.op, last.arg))[1])
       /\ last.s2 = Expected(SubsetNames(ComponentOf(last.op, last.arg))[2])
  /\ (last.op = "check_sum_rule" /\ <<last.arg[1], last.arg[2]>> \in ProductSet) =>
       last.s1 = Keep(FullList, {<<last.arg[1], last.arg[2]>>})

\* an access after cond_orbs and check_sum_rule have each removed orbitals
\* from the list they were handed
C2_Witness ==
  /\ Returned({"sig_cc"})
  /\ cond_ref # None
  /\ Len(heap[cond_ref]) < lmax * nmax
  /\ Len(last.s1) = 2
  /\ Len(valence_orbs) = 2

\* C3: an unrecognised component ends cond_tot in SystemExit: no tensor is
\* built and nothing is returned
C3_UnknownComponentFatal ==
  (last.op = "cond_tot" /\ last.arg \notin {"tt", "cc", "cv", "vv"}) =>
    /\ last.outcome = "SystemExit"
    /\ last.val = NoVal
    /\ tens = NoTens

C3_Witness ==
  /\ last.op = "cond_tot"
  /\ last.arg = "xx"
  /\ last.outcome = "SystemExit"
  /\ all_ref # None

\* indices whose two orbitals differ by one unit of l, and the others
Dipole == {i \in Idx : i[2][1] - i[3][1] \in {-1, 1}}
PDipole == {p \in PIdx : p[1] - p[2] \in {-1, 1}}

\* C5: in every tensor a call builds, and in P2 and P4 for every lmax >= 1,
\* each entry whose indices have |l1 - l2| # 1 is exactly zero
C5_SelectionRule ==
  /\ \A lm \in 1..MaxL : \A p \in PIdx \ PDipole :
       P_mat_int(2, lm)[p] = 0 /\ P_mat_int(4, lm)[p] = 0
  /\ tens # NoTens =>
       /\ \A i \in Idx \ Dipole :
            tens.R1[i] = 0 /\ tens.R2[i] = 0 /\ tens.occ_diff[i] = 0
       /\ \A p \in PIdx \ PDipole : tens.P2[p] = 0 /\ tens.P4[p] = 0

\* tensors with populated dipole entries next to the zero ones
C5_Witness ==
  /\ Returned({"sig_tot", "cond_tot"})
  /\ lmax = MaxL
  /\ nmax = MaxN
  /\ \E i \in Dipole : tens.R1[i] # 0 /\ tens.R2[i] # 0 /\ tens.occ_diff[i] # 0
  /\ \E p \in PDipole : tens.P2[p] # 0 /\ tens.P4[p] # 0

\* the value calc_sig returns for the subset pair of a component, on this object
SigValue(component) == SigResult(component).res.sig

\* equal up to a relative 1e-6; non-finite values must be the same value
Within(a, b) ==
  IF IsFinite(a) /\ IsFinite(b)
  THEN LET x == a[1] * b[2]
           y == b[1] * a[2]
           big == IF Abs(x) > Abs(y) THEN Abs(x) ELSE Abs(y)
       IN Abs(x - y) <= big \div 1000000
  ELSE a = b

\* C6 as stated: sig_tt = sig_cc + sig_vv + 2 * sig_cv within the tolerance
C6_AdditivityTwiceCV ==
  Returned({"sig_tot"}) =>
    Within(last.val, XAdd(XAdd(SigValue("cc"), SigValue("vv")),
                          XMul(I2Q(2), SigValue("cv"))))

\* C6: sig_tt = sig_cc + sig_vv + sig_cv + sig_vc within the tolerance, sig_vc
\* being calc_sig over (valence, cond); where a zero divisor makes the total
\* infinite or NaN the sum of the four is the same non-finite value
C6_Additivity ==
  Returned({"sig_tot"}) =>
    Within(last.val, XAdd(XAdd(SigValue("cc"), SigValue("vv")),
                          XAdd(SigValue("cv"), SigValue("vc"))))

\* a finite total whose four components are all positive, cv and vc differing
C6_Witness ==
  /\ Returned({"sig_tot"})
  /\ IsFinite(last.val)
  /\ \A c \in {"cc", "vv", "cv", "vc"} : IsFinite(SigValue(c)) /\ SigValue(c)[1] > 0
  /\ SigValue("cv") # SigValue("vc")

\* C7: calc_sig returns a finite non-negative scalar; every summand of
\* sig_bare is finite and non-negative and its divisor is not zero
C7_FiniteNonNegative ==
  Returned(SigOps) =>
    /\ IsFinite(last.val)
    /\ last.val[1] >= 0
    /\ \A i \in Idx : /\ tens.eig_diff[i] # 0
                      /\ IsFinite(tens.terms[i])
                      /\ tens.terms[i][1] >= 0

\* C9: every entry of the eigenvalue-difference tensor is at least the floor
C9_EigDiffFloor ==
  tens # NoTens => \A i \in Idx : tens.eig_diff[i] >= EigFloor

\* C10: an occupation difference is written only inside A x B, for |l1 - l2| = 1
\* and occ(l2,n2) >= occ(l1,n1), and is never negative; an eigenvalue
\* difference only when in addition eig(l1,n1) >= eig(l2,n2); a summand is not
\* zero only for a transition from the more occupied, lower orbital (l2,n2)
\* to the less occupied, higher orbital (l1,n1)
C10_CausalityMasks ==
  Returned(SigOps) =>
    \A i \in Idx :
      LET k == i[1]
          o1 == i[2]
          o2 == i[3]
          inside == Has(last.s1, o1) /\ Has(last.s2, o2) /\ i \in Dipole
          occ_ok == occnums[k][0][o2] - occnums[k][0][o1] >= 0
          eig_ok == eigvals[k][0][o1] - eigvals[k][0][o2] >= 0
      IN /\ tens.occ_diff[i] >= 0
         /\ tens.occ_diff[i] # 0 => inside /\ occ_ok
         /\ tens.eig_diff[i] # EigFloor => inside /\ occ_ok /\ eig_ok
         /\ tens.terms[i] # I2Q(0) => occ_ok /\ eig_ok

\* C4: when the shapes of eigfuncs, eigvals and occnums disagree, sig_tot ends
\* in an exception before any tensor is complete, and never returns a value
C4_ShapeMismatchRejected ==
  (/\ shape_last.op = "sig_tot"
   /\ ~(shape_eigfuncs = shape_eigvals /\ shape_eigvals = shape_occnums)) =>
     /\ shape_last.outcome \in {"IndexError", "ValueError"}
     /\ shape_last.built = {}

\* Gram-Schmidt on the functions fs[0..n] of one channel alone: fs[n] minus its
\* projections onto the orthogonalized functions before it
RECURSIVE ChannelOrtho(_, _)
RECURSIVE ChannelMinus(_, _, _)
ChannelMinus(fs, n, j) ==
  IF j = 0 THEN fs[n]
  ELSE LET b == ChannelOrtho(fs, j - 1)
           c == XDiv(prod_eigfuncs(b, fs[n]), prod_eigfuncs(b, b))
       IN [i \in Grid |-> XAdd(ChannelMinus(fs, n, j - 1)[i],
                               XMul(I2Q(-1), XMul(c, b[i])))]

ChannelOrtho(fs, n) == ChannelMinus(fs, n, n)

\* the functions of the channel of idx in the caller's array
ChannelOf(arr, idx) == [n \in 0..(GSN - 1) |-> arr[<<idx[1], idx[2], idx[3], n>>]]

\* C8: gs_ortho leaves its argument as it was and returns an array of the same
\* shape; entry (k, sp, l, n) is the Gram-Schmidt function n of the channel
\* (k, sp, l) of the input, a function of that channel's data alone, with the
\* norm of that function
C8_GsOrthoFrame ==
  /\ gs_in = gs_orig
  /\ gs_ret # NoVal =>
       /\ DOMAIN gs_ret = DOMAIN gs_orig
       /\ \A idx \in GSIdx :
            LET ref == ChannelOrtho(ChannelOf(gs_orig, idx), idx[4])
            IN /\ DOMAIN gs_ret[idx].vec = DOMAIN gs_orig[idx]
               /\ gs_ret[idx].vec = ref
               /\ gs_ret[idx].norm = [i \in Grid |-> prod_eigfuncs(ref, ref)]

\* a call on two channels of three independent functions each, the channels
\* holding different data
C8_Witness ==
  /\ gs_ret # NoVal
  /\ \A idx \in GSIdx : /\ IsFinite(gs_ret[idx].norm[1])
                        /\ gs_ret[idx].norm[1][1] > 0
                        /\ (idx[4] > 0 => gs_ret[idx].vec # gs_orig[idx])
  /\ \E a, b \in GSIdx : a[4] = b[4] /\ a[3] # b[3] /\ gs_ret[a].vec # gs_ret[b].vec

\* is slot (o1, o2) in the support the subsets A, B give the radial tensors?
InSupport(A, B, o1, o2) ==
  /\ o1[1] - o2[1] \in {-1, 1}
  /\ \/ Has(A, o1) /\ Has(B, o2)
     \/ A # B /\ Has(B, o1) /\ Has(A, o2)

\* C11: for the subsets (A, B) of a call, entry [k, l1, n1, l2, n2] of R1 and
\* of R2 holds the integral of orbital (l1, n1) against orbital (l2, n2) when
\* |l1 - l2| = 1 and the pair lies in A x B or, for A # B, in B x A, and is
\* zero otherwise; the slots assigned are exactly that support, and for A = B
\* every slot is assigned once, by its own ordered pair
C11_RadialSupport ==
  tens # NoTens =>
    LET A == last.s1
        B == last.s2
        log == R_writes(A, B)
    IN /\ \A i \in Idx :
            IF InSupport(A, B, i[2], i[3])
            THEN /\ tens.R1[i] = R1_int_term(eigfuncs[i[1]][0][i[2]], eigfuncs[i[1]][0][i[3]])
                 /\ tens.R2[i] = R2_int_term(eigfuncs[i[1]][0][i[2]], eigfuncs[i[1]][0][i[3]])
                 /\ tens.R1[i] # 0
                 /\ tens.R2[i] # 0
            ELSE tens.R1[i] = 0 /\ tens.R2[i] = 0
       /\ ToSet(log) = {<<o1, o2>> \in Orbs \X Orbs : InSupport(A, B, o1, o2)}
       /\ A = B => /\ NoDup(log)
                   /\ \A j \in 1..Len(log) : Has(A, log[j][1]) /\ Has(A, log[j][2])

\* a cond x valence call whose tensors hold a slot filled by the mirrored
\* write alone, next to one filled by the direct write alone
C11_Witness ==
  /\ Returned({"sig_cv"})
  /\ Len(last.s1) = 2
  /\ Len(last.s2) = 2
  /\ \E i \in Idx : /\ Has(last.s2, i[2]) /\ Has(last.s1, i[3])
                    /\ ~Has(last.s1, i[2])
                    /\ tens.R1[i] # 0 /\ tens.R2[i] # 0
  /\ \E i \in Idx : /\ Has(last.s1, i[2]) /\ Has(last.s2, i[3])
                    /\ tens.R1[i] # 0 /\ tens.R2[i] # 0

\* C12: check_sum_rule(l, n, m) on a target of all_orbs returns the per-band
\* array for every m; an orbital with |l1 - l| # 1, and any orbital when |m|
\* exceeds l or l1, adds zero to the sum, the others add
\* |mel_cc * mel| / (eig(l1,n1) - eig(l,n))
C12_SumRuleExclusions ==
  (last.op = "check_sum_rule" /\ <<last.arg[1], last.arg[2]>> \in ProductSet) =>
    /\ last.outcome = "return"
    /\ DOMAIN last.val = Bands
    /\ \A k \in Bands :
         LET o == <<last.arg[1], last.arg[2]>>
             m == last.arg[3]
             others == ToSet(last.s1)
             term(o1) ==
               IF o1[1] - o[1] \notin {-1, 1} \/ Abs(m) > o[1] \/ Abs(m) > o1[1]
               THEN I2Q(0)
               ELSE XDiv(I2Q(Abs(calc_mel_kgm(eigfuncs[k][0][o1], eigfuncs[k][0][o], o1[1], o[1], m)
                                 * calc_mel_kgm(eigfuncs[k][0][o], eigfuncs[k][0][o1], o[1], o1[1], m))),
                         I2Q(eigvals[k][0][o1] - eigvals[k][0][o]))
         IN last.val[k] = SumSet(others, [o1 \in others |-> term(o1)])

\* the output of the last call, computed again from the arrays as they are now
OutputNow ==
  IF last.op = "cond_tot"
  THEN calc_sig_func(calc_R1_int_mat(eigfuncs, last.s1, last.s2),
                     calc_R2_int_mat(eigfuncs, last.s1, last.s2), last.s1, last.s2).sig
  ELSE IF last.op = "check_sum_rule"
  THEN [k \in Bands |->
          SumSet(ToSet(last.s1),
                 [o1 \in ToSet(last.s1) |->
                    sum_rule_term(k, <<last.arg[1], last.arg[2]>>, o1, last.arg[3])])]
  ELSE calc_sig(calc_R1_int_mat(eigfuncs, last.s1, last.s2),
                calc_R2_int_mat(eigfuncs, last.s1, last.s2), last.s1, last.s2).sig

\* C13: what sig_tot, sig_cc, sig_cv, sig_vv, cond_tot and check_sum_rule
\* return depends on the arrays at spin index 0 only: the value returned on one
\* orbital set is the value of the same call on every orbital set that agrees
\* with it at spin index 0
C13_SpinZeroOnly ==
  Returned({"sig_tot", "sig_cc", "sig_cv", "sig_vv", "cond_tot", "check_sum_rule"}) =>
    last.val = OutputNow

\* do the four arrays differ between spin index 0 and spin index 1?
SpinPlanesDiffer ==
  \E o \in Orbs : /\ eigfuncs[0][1][o] # eigfuncs[0][0][o]
                  /\ eigvals[0][1][o] # eigvals[0][0][o]
                  /\ occnums[0][1][o] # occnums[0][0][o]
                  /\ DOS_w[0][1][o] # DOS_w[0][0][o]

\* a positive conductivity returned on an orbital set whose spin-1 planes
\* differ from its spin-0 planes in all four arrays
C13_Witness ==
  /\ Returned({"sig_cv"})
  /\ IsFinite(last.val)
  /\ last.val[1] > 0
  /\ SpinPlanesDiffer

====
